---- MODULE Spec2Model ----
(***************************************************************************)
(* RateMyStore server: the authentication and authorization layer          *)
(* (jwt issuance, the verifyToken middleware, requireRole) together with   *)
(* the handlers that create, change and delete the User records it reads.  *)
(* Every request runs as its own process; a step of a request is the code  *)
(* between two awaits, and the database call of an await executes in the   *)
(* step that resumes it.                                                   *)
(***************************************************************************)
EXTENDS Integers, Sequences, FiniteSets, TLC

\* ------------------------------------------------------------- bounds ----
MaxUsers == 2       \* ids the autoincrement column hands out
MaxTime == 1        \* days the clock runs
MaxStores == 2      \* records the Store table takes

\* ---------------------------------------------------------- constants ----
JWT_EXPIRES_IN == 1     \* days; process.env.JWT_EXPIRES_IN = "1d" ("7d" when it is unset)
LOGIN_EXPIRES_IN == 2   \* "2d", loginUser
BCRYPT_ROUNDS == 10
CHANGE_PASSWORD_ROUNDS == 12

Reqs == {"r1", "r2"}        \* the requests that can be in progress at once
Ids == 1..MaxUsers
Roles == {"ADMIN", "STORE_OWNER", "NORMAL_USER"}
JWT_SECRET == "server-secret"
OtherSecret == "attacker-secret"

\* JavaScript's undefined, one per type it stands in for
NoId == 0
NoStr == "undefined"
Undefined == [id |-> NoId, role |-> NoStr]
\* an identifier that no scope declares: reading it throws ReferenceError
Undeclared == -1
Null == [id |-> NoId, email |-> NoStr, name |-> NoStr, role |-> NoStr,
         password |-> [alg |-> NoStr, cost |-> 0, of |-> NoStr]]

\* ------------------------------------------------------- jsonwebtoken ----
\* the signature of a payload under a key: an ideal MAC
HMAC(payload, key) == [p |-> payload, k |-> key]

\* jwt.sign(claims, secret, {expiresIn}) at time t
JwtSign(claims, secret, expiresIn, t) ==
  LET payload == [userId |-> claims.userId, id |-> claims.id, role |-> claims.role,
                  iat |-> t, exp |-> t + expiresIn]
  IN  [wf |-> TRUE, payload |-> payload, sig |-> HMAC(payload, secret)]

NoPayload == [userId |-> NoId, id |-> NoId, role |-> NoStr, iat |-> 0, exp |-> 0]
\* a string that is not a JWT, such as "abc"
Garbage == [wf |-> FALSE, payload |-> NoPayload, sig |-> HMAC(NoPayload, NoStr)]
\* no token at all
NoToken == [wf |-> FALSE, payload |-> NoPayload, sig |-> HMAC(NoPayload, "")]

\* jwt.verify called with ignoreExpiration: the expiry is never looked at
JwtVerifyErrorIgnoreExpiration(token, secret, t) ==
  IF ~token.wf THEN "JsonWebTokenError: jwt malformed"
  ELSE IF token.sig # HMAC(token.payload, secret) THEN "JsonWebTokenError: invalid signature"
  ELSE ""

\* jwt.verify(token, secret) at time t: the error it throws, or "" and the payload
JwtVerifyError(token, secret, t) ==
  IF ~token.wf THEN "JsonWebTokenError: jwt malformed"
  ELSE IF token.sig # HMAC(token.payload, secret) THEN "JsonWebTokenError: invalid signature"
  ELSE IF t >= token.payload.exp THEN "TokenExpiredError: jwt expired"
  ELSE ""

\* generateToken(userId) at time t
generateToken(userId, t) ==
  JwtSign([userId |-> userId, id |-> NoId, role |-> NoStr], JWT_SECRET, JWT_EXPIRES_IN, t)

\* the token loginUser signs for a user at time t
LoginToken(user, t) ==
  JwtSign([userId |-> NoId, id |-> user.id, role |-> user.role], JWT_SECRET, LOGIN_EXPIRES_IN, t)

\* ------------------------------------------------------------- bcrypt ----
BcryptHash(plain, rounds) == [alg |-> "bcrypt", cost |-> rounds, of |-> plain]
\* a password column that holds the password itself
Plaintext(plain) == [alg |-> "none", cost |-> 0, of |-> plain]
\* bcrypt.compare(plain, stored): false for a stored value that is no digest
BcryptCompare(plain, stored) == stored.alg = "bcrypt" /\ stored.of = plain

\* ------------------------------------------------------------- prisma ----
\* a lookup that answers from a copy of the row kept past its deletion
FindByIdStale(db, id) == IF id \in DOMAIN db THEN db[id] ELSE [Null EXCEPT !.id = id]

\* prisma.user.findUnique({where: {id}}) and ({where: {email}}): the record or null
FindById(db, id) == IF id \in DOMAIN db THEN db[id] ELSE Null
FindByEmail(db, email) ==
  IF \E i \in DOMAIN db : db[i].email = email
  THEN db[CHOOSE i \in DOMAIN db : db[i].email = email]
  ELSE Null
\* select: {id, email, name, role}
SelectPublic(u) == [id |-> u.id, email |-> u.email, name |-> u.name, role |-> u.role]

\* ---------------------------------------------------------- the state ----
VARIABLES
  users,        \* the User table: id -> record
  nextId,       \* the autoincrement counter of User.id
  now,          \* the clock, in days
  held,         \* the token the client keeps from the last issue or login response
  prismaBound,  \* whether the identifier prisma resolves inside the middleware module
  pc,           \* where each request is
  req,          \* each request: its route, header, params, body and req.user
  calls,        \* what the middleware of each request called, in order
  res,          \* the responses sent on each request, in order
  stores,       \* the Store table: id -> record
  nextStoreId,  \* the autoincrement counter of Store.id
  ownerId,      \* the property ownerId of the global object of the server process
  ratings,      \* the Rating table: id -> record
  nextRatingId, \* the autoincrement counter of Rating.id
  existingRating \* the local existingRating of each createRating in progress

\* what the store controller reads and writes
storeVars == <<stores, nextStoreId, ownerId>>
\* what the rating controller reads and writes
ratingVars == <<ratings, nextRatingId, existingRating>>
vars == <<users, nextId, now, held, prismaBound, pc, req, calls, res, stores, nextStoreId, ownerId,
          ratings, nextRatingId, existingRating>>

NoBody == [valid |-> TRUE, name |-> NoStr, email |-> NoStr, password |-> NoStr, role |-> NoStr,
           newPassword |-> NoStr, ownerId |-> NoId, storeId |-> NoId, rating |-> NoId]
BadBody == [NoBody EXCEPT !.valid = FALSE]
NoRoles == {NoStr}
IdleReq == [op |-> "none", verify |-> FALSE, roles |-> NoRoles, authorization |-> <<>>,
            id |-> NoId, body |-> NoBody, user |-> Undefined]

\* the table as earlier registrations left it: a NORMAL_USER and an ADMIN
SeedUsers ==
  (1 :> [id |-> 1, email |-> "a@x.io", name |-> "Ann", role |-> "NORMAL_USER",
         password |-> BcryptHash("Passw0rd!", BCRYPT_ROUNDS)])
  @@ (2 :> [id |-> 2, email |-> "b@x.io", name |-> "Ann", role |-> "ADMIN",
            password |-> BcryptHash("Passw0rd!", BCRYPT_ROUNDS)])

\* a process that has served no request, with an empty Store table
InitStores ==
  /\ stores = <<>>
  /\ nextStoreId = 1
  /\ ownerId = Undeclared

\* an empty Rating table
InitRatings ==
  /\ ratings = <<>>
  /\ nextRatingId = 1
  /\ existingRating = [r \in Reqs |-> NoId]

Init ==
  /\ InitStores
  /\ InitRatings
  /\ users = SeedUsers
  /\ nextId = 3
  /\ now = 0
  /\ held = NoToken
  /\ prismaBound \in BOOLEAN
  /\ pc = [r \in Reqs |-> "idle"]
  /\ req = [r \in Reqs |-> IdleReq]
  /\ calls = [r \in Reqs |-> <<>>]
  /\ res = [r \in Reqs |-> <<>>]

\* res.status(s).json({message: m, token: t}) by a stage, and the end of the request
RespondWith(r, by, s, m, t) ==
  /\ res' = [res EXCEPT ![r] = Append(@, [by |-> by, status |-> s, message |-> m, token |-> t])]
  /\ pc' = [pc EXCEPT ![r] = "done"]
Respond(r, by, s, m) == RespondWith(r, by, s, m, NoToken)

\* ---------------------------------------------------------- the clock ----
Tick ==
  /\ now < MaxTime
  /\ now' = now + 1
  /\ UNCHANGED <<users, nextId, held, prismaBound, ratingVars, storeVars, pc, req, calls, res>>

\* -------------------------------------------------------- Token Issuer ----
\* generateToken(user.id) for a user of the table; the client keeps the token
IssueToken(id) ==
  /\ id \in DOMAIN users
  /\ held' = generateToken(id, now)
  /\ UNCHANGED <<users, nextId, now, prismaBound, ratingVars, storeVars, pc, req, calls, res>>

\* ------------------------------------------------------------ requests ----
\* the Authorization header is kept as its space-separated words, absent as <<>>
\* req.headers.authorization?.split(" ")[1]
BearerToken(authorization) ==
  IF Len(authorization) >= 2 THEN authorization[2] ELSE NoToken

\* what a client can make of a token without the secret
Tampered(t) ==
  {[t EXCEPT !.payload.userId = i] : i \in Ids \ {t.payload.userId}}
  \cup {[t EXCEPT !.payload.exp = MaxTime + 1]}
  \cup {[t EXCEPT !.sig = HMAC(t.payload, OtherSecret)]}

\* the headers of a well-behaved client that keeps the token held, all the
\* headers that client can send, and the headers of the administrators' clients,
\* which ask for a token as they need one
PlainAuthorizations == {<<>>} \cup {<<"Bearer", t>> : t \in {held} \ {NoToken}}
Authorizations ==
  PlainAuthorizations
  \cup {<<"Bearer">>, <<"Bearer", Garbage>>, <<"Token", Garbage>>}
  \cup {<<"Token", t>> : t \in {held} \ {NoToken}}
  \cup {<<"Bearer", t>> : t \in UNION {Tampered(k) : k \in {held} \ {NoToken}}}
FreshAuthorizations == {<<"Bearer", generateToken(i, now)>> : i \in DOMAIN users}

\* the e-mail addresses requests carry
Emails == {"a@x.io", "b@x.io"}
AdminOps == {"updateUser", "deleteUserByAdmin"}
StoreIds == 1..MaxStores
\* the ratings clients give, within the 1 to 5 of createRatingSchema
RatingValues == {1, 5}
\* the routes of the store router that take an :id
StoreIdOps == {"updateNewStore", "deleteStore"}

\* the middleware the routers mount before a handler: GET and PUT
\* /api/user/profile mount verifyToken, the routes of /api/auth mount nothing
RouteMounts(op) ==
  IF op \in {"getUserProfile", "updateProfile", "createNewStore2", "createRating"} \cup StoreIdOps
  THEN {[verify |-> TRUE, roles |-> NoRoles]}
  ELSE IF op \in {"loginUser", "registerUser", "createUser", "createNewStore"}
  THEN {[verify |-> FALSE, roles |-> NoRoles]}
  ELSE {}

\* the routes behind a Role Guard: the admin routes mount verifyToken and
\* requireRole(["ADMIN"]); a route can declare an allow-list with or without
\* the verifier before it
GuardedMounts(op) ==
  IF op = "getUserProfile"
  THEN {[verify |-> FALSE, roles |-> {"ADMIN"}],
        [verify |-> TRUE, roles |-> {"ADMIN", "STORE_OWNER"}]}
  ELSE IF op \in AdminOps
  THEN {[verify |-> TRUE, roles |-> {"ADMIN"}]}
  ELSE {}

\* changePassword reads req.user, so its route mounts verifyToken before it
AuthMounts(op) ==
  IF op = "changePassword" THEN {[verify |-> TRUE, roles |-> NoRoles]} ELSE {}

Mounts(op) == RouteMounts(op) \cup GuardedMounts(op) \cup AuthMounts(op)

\* the bodies and the :id a client sends to a route
Bodies(op) ==
  CASE op = "updateProfile" -> {BadBody, [NoBody EXCEPT !.name = "Bob"],
                                [NoBody EXCEPT !.name = "Bob", !.role = "ADMIN"]}
    [] op = "updateUser" -> {[NoBody EXCEPT !.email = "b@x.io"],
                             [NoBody EXCEPT !.role = "STORE_OWNER"]}
    [] op = "loginUser" -> {BadBody} \cup {[NoBody EXCEPT !.email = e, !.password = pw] :
                                            e \in Emails, pw \in {"Passw0rd!", "Wr0ng!pass"}}
    [] op = "registerUser" ->
         {BadBody} \cup {[NoBody EXCEPT !.name = "Ann", !.email = e, !.password = "Passw0rd!",
                                        !.role = ro] : e \in Emails, ro \in {NoStr, "ADMIN"}}
    [] op = "createUser" ->
         {BadBody} \cup {[NoBody EXCEPT !.name = "Ann", !.email = e, !.password = "Passw0rd!",
                                        !.role = "STORE_OWNER"] : e \in Emails}
    [] op = "createNewStore" ->
         {[NoBody EXCEPT !.name = "Shop", !.role = ro] : ro \in {"STORE_OWNER", "NORMAL_USER"}}
         \cup {[NoBody EXCEPT !.name = "Shop", !.role = "ADMIN", !.ownerId = i] : i \in Ids}
    [] op = "createNewStore2" ->
         {[NoBody EXCEPT !.name = "Shop", !.ownerId = i] : i \in Ids \cup {NoId}}
         \cup {[NoBody EXCEPT !.name = "Shop", !.role = "STORE_OWNER"]}
    [] op = "updateNewStore" -> {BadBody, [NoBody EXCEPT !.name = "Shop2"]}
    [] op = "createRating" ->
         {BadBody} \cup {[NoBody EXCEPT !.storeId = i, !.rating = n] :
                           i \in StoreIds, n \in RatingValues}
    [] op = "changePassword" ->
         {BadBody} \cup {[NoBody EXCEPT !.password = pw, !.newPassword = "N3w!Passw0rd"] :
                           pw \in {"Passw0rd!", "Wr0ng!pass"}}
    [] OTHER -> {NoBody}
Params(op) == IF op \in AdminOps THEN Ids
              ELSE IF op \in StoreIdOps THEN StoreIds \cup {NoId}
              ELSE {NoId}

\* the headers sent to a route: the forged and odd ones go to /profile
Headers(op, m) ==
  IF op \in {"loginUser", "registerUser", "createUser", "createNewStore"} THEN {<<>>}
  ELSE IF op \in AdminOps THEN FreshAuthorizations
  ELSE IF op = "getUserProfile" /\ m.roles = NoRoles THEN Authorizations
  ELSE PlainAuthorizations

\* the requests a client can send to the routes of ops
Requests(ops) ==
  UNION {UNION {
    {[op |-> op, verify |-> m.verify, roles |-> m.roles, authorization |-> a, id |-> id,
      body |-> b, user |-> Undefined] :
        a \in Headers(op, m), b \in Bodies(op), id \in Params(op)} :
          m \in Mounts(op)} : op \in ops}

\* the first stage of a request, and the stage after verifyToken calls next()
Entry(q) == IF q.verify THEN "verifyToken"
            ELSE IF q.roles # NoRoles THEN "requireRole" ELSE q.op
AfterVerify(q) == IF q.roles # NoRoles THEN "requireRole" ELSE q.op

Start(r, q) ==
  /\ pc[r] \in {"idle", "done"}
  /\ (~q.verify) => (q.authorization = <<>>)
  /\ req' = [req EXCEPT ![r] = q]
  /\ pc' = [pc EXCEPT ![r] = Entry(q)]
  /\ calls' = [calls EXCEPT ![r] = <<>>]
  /\ res' = [res EXCEPT ![r] = <<>>]
  /\ UNCHANGED <<users, nextId, now, held, prismaBound, ratingVars, storeVars>>

\* a request arrives
Arrive(r) ==
  \E q \in Requests({"getUserProfile", "updateProfile", "loginUser"} \cup AdminOps) :
    Start(r, q)

\* ------------------------------------------------------- verifyToken ----
\* verifyToken without the return of line 6: the 401 for the missing token is
\* sent, jwt.verify(undefined) throws and the catch sends a second response
VerifyTokenNoReturn(r) ==
  LET token == BearerToken(req[r].authorization)
      err == JwtVerifyError(token, JWT_SECRET, now)
      unauthorized == [by |-> "verifyToken", status |-> 401, message |-> "Unauthorized.",
                       token |-> NoToken]
      invalid == [unauthorized EXCEPT !.message = "Invalid token."]
  IN
  /\ pc[r] = "verifyToken"
  /\ IF err # ""
     THEN /\ calls' = [calls EXCEPT ![r] = Append(@, "jwt.verify")]
          /\ res' = [res EXCEPT ![r] = @ \o (IF token = NoToken THEN <<unauthorized, invalid>>
                                              ELSE <<invalid>>)]
          /\ pc' = [pc EXCEPT ![r] = "done"]
          /\ UNCHANGED req
     ELSE /\ req' = [req EXCEPT ![r].user = token.payload]
          /\ IF prismaBound
             THEN /\ calls' = [calls EXCEPT ![r] = @ \o <<"jwt.verify", "user.findUnique">>]
                  /\ pc' = [pc EXCEPT ![r] = "verifyToken:await"]
                  /\ UNCHANGED res
             ELSE /\ calls' = [calls EXCEPT ![r] = Append(@, "jwt.verify")]
                  /\ Respond(r, "verifyToken", 401, "Invalid token.")
  /\ UNCHANGED <<users, nextId, now, held, prismaBound, ratingVars, storeVars>>

\* lines 4-17: up to the await of the user lookup
VerifyToken(r) ==
  LET token == BearerToken(req[r].authorization)
      err == JwtVerifyError(token, JWT_SECRET, now)
  IN
  /\ pc[r] = "verifyToken"
  /\ IF token = NoToken
     THEN /\ Respond(r, "verifyToken", 401, "Unauthorized.")
          /\ UNCHANGED <<req, calls>>
     ELSE IF err # ""
     THEN /\ calls' = [calls EXCEPT ![r] = Append(@, "jwt.verify")]
          /\ Respond(r, "verifyToken", 401, "Invalid token.")
          /\ UNCHANGED req
     ELSE /\ req' = [req EXCEPT ![r].user = token.payload]
          /\ IF prismaBound
             THEN /\ calls' = [calls EXCEPT ![r] = @ \o <<"jwt.verify", "user.findUnique">>]
                  /\ pc' = [pc EXCEPT ![r] = "verifyToken:await"]
                  /\ UNCHANGED res
             ELSE \* ReferenceError: prisma is not defined
                  /\ calls' = [calls EXCEPT ![r] = Append(@, "jwt.verify")]
                  /\ Respond(r, "verifyToken", 401, "Invalid token.")
  /\ UNCHANGED <<users, nextId, now, held, prismaBound, ratingVars, storeVars>>

\* verifyToken without the check of lines 19-21 that the lookup found a user
VerifyTokenResumeNoUserCheck(r) ==
  LET decoded == req[r].user
      user == FindById(users, decoded.userId)
  IN
  /\ pc[r] = "verifyToken:await"
  /\ IF decoded.userId = NoId
     THEN /\ Respond(r, "verifyToken", 401, "Invalid token.")
          /\ UNCHANGED <<req, calls>>
     ELSE /\ req' = [req EXCEPT ![r].user = SelectPublic(user)]
          /\ calls' = [calls EXCEPT ![r] = Append(@, "verifyToken:next")]
          /\ pc' = [pc EXCEPT ![r] = AfterVerify(req[r])]
          /\ UNCHANGED res
  /\ UNCHANGED <<users, nextId, now, held, prismaBound, ratingVars, storeVars>>

\* verifyToken stamping the record it found: a write on the success path
VerifyTokenResumeTouch(r) ==
  LET decoded == req[r].user
      user == FindById(users, decoded.userId)
  IN
  /\ pc[r] = "verifyToken:await"
  /\ IF decoded.userId = NoId
     THEN /\ Respond(r, "verifyToken", 401, "Invalid token.")
          /\ UNCHANGED <<req, calls, users>>
     ELSE IF user = Null
     THEN /\ Respond(r, "verifyToken", 401, "User not found")
          /\ UNCHANGED <<req, calls, users>>
     ELSE /\ req' = [req EXCEPT ![r].user = SelectPublic(user)]
          /\ users' = [users EXCEPT ![user.id].name = "seen"]
          /\ calls' = [calls EXCEPT ![r] = Append(@, "verifyToken:next")]
          /\ pc' = [pc EXCEPT ![r] = AfterVerify(req[r])]
          /\ UNCHANGED res
  /\ UNCHANGED <<nextId, now, held, prismaBound, ratingVars, storeVars>>

\* lines 14-27: the lookup executes and verifyToken resumes
VerifyTokenResume(r) ==
  LET decoded == req[r].user
      user == FindById(users, decoded.userId)
  IN
  /\ pc[r] = "verifyToken:await"
  /\ IF decoded.userId = NoId
     THEN \* findUnique({where: {id: undefined}}) throws a validation error
          /\ Respond(r, "verifyToken", 401, "Invalid token.")
          /\ UNCHANGED <<req, calls>>
     ELSE IF user = Null
     THEN /\ Respond(r, "verifyToken", 401, "User not found")
          /\ UNCHANGED <<req, calls>>
     ELSE /\ req' = [req EXCEPT ![r].user = SelectPublic(user)]
          /\ calls' = [calls EXCEPT ![r] = Append(@, "verifyToken:next")]
          /\ pc' = [pc EXCEPT ![r] = AfterVerify(req[r])]
          /\ UNCHANGED res
  /\ UNCHANGED <<users, nextId, now, held, prismaBound, ratingVars, storeVars>>

\* lines 14-27 when the Credential Store is in trouble: the lookup rejects
\* (connection lost, query error) and the catch of line 25 answers
VerifyTokenLookupError(r) ==
  /\ pc[r] = "verifyToken:await"
  /\ Respond(r, "verifyToken", 401, "Invalid token.")
  /\ UNCHANGED <<users, nextId, now, held, prismaBound, ratingVars, storeVars, req, calls>>

\* line 14 when the promise of the lookup never settles: verifyToken sets no
\* timer, so nothing resumes the request
VerifyTokenLookupStalls(r) ==
  /\ pc[r] = "verifyToken:await"
  /\ pc' = [pc EXCEPT ![r] = "verifyToken:stalled"]
  /\ UNCHANGED <<users, nextId, now, held, prismaBound, ratingVars, storeVars, req, calls, res>>

\* ------------------------------------------------------- requireRole ----
\* requireRole without the membership test of lines 36-38
RequireRoleAnyRole(r) ==
  /\ pc[r] = "requireRole"
  /\ IF req[r].user = Undefined
     THEN /\ Respond(r, "requireRole", 401, "Authentication required")
          /\ UNCHANGED calls
     ELSE /\ calls' = [calls EXCEPT ![r] = Append(@, "requireRole:next")]
          /\ pc' = [pc EXCEPT ![r] = req[r].op]
          /\ UNCHANGED res
  /\ UNCHANGED <<users, nextId, now, held, prismaBound, ratingVars, storeVars, req>>

RequireRole(r) ==
  /\ pc[r] = "requireRole"
  /\ IF req[r].user = Undefined
     THEN /\ Respond(r, "requireRole", 401, "Authentication required")
          /\ UNCHANGED calls
     ELSE IF req[r].user.role \notin req[r].roles
     THEN /\ Respond(r, "requireRole", 403, "Insufficient permissions")
          /\ UNCHANGED calls
     ELSE /\ calls' = [calls EXCEPT ![r] = Append(@, "requireRole:next")]
          /\ pc' = [pc EXCEPT ![r] = req[r].op]
          /\ UNCHANGED res
  /\ UNCHANGED <<users, nextId, now, held, prismaBound, ratingVars, storeVars, req>>

\* ----------------------------------------------------- user.controller ----
\* getUserProfile: the lookup executes, res.json({user})
GetUserProfile(r) ==
  /\ pc[r] = "getUserProfile"
  /\ Respond(r, "getUserProfile", 200,
             IF req[r].user.id \in DOMAIN users THEN "user" ELSE "user: null")
  /\ UNCHANGED <<users, nextId, now, held, prismaBound, ratingVars, storeVars, req, calls>>

\* updateProfileSchema.validate: name, address and phone are the only keys
UpdateProfileValid(b) == b.valid /\ b.role = NoStr

\* updateProfile with a schema that lets unknown keys through to data: value
UpdateProfileAllowUnknown(r) ==
  /\ pc[r] = "updateProfile"
  /\ IF ~req[r].body.valid
     THEN /\ Respond(r, "updateProfile", 400, "validation")
          /\ UNCHANGED users
     ELSE IF req[r].user.id \notin DOMAIN users
     THEN /\ Respond(r, "updateProfile", 500, "Internal server error")
          /\ UNCHANGED users
     ELSE /\ users' = [users EXCEPT
                 ![req[r].user.id].name = IF req[r].body.name = NoStr THEN @ ELSE req[r].body.name,
                 ![req[r].user.id].role = IF req[r].body.role = NoStr THEN @ ELSE req[r].body.role]
          /\ Respond(r, "updateProfile", 200, "Profile updated successfully")
  /\ UNCHANGED <<nextId, now, held, prismaBound, ratingVars, storeVars, req, calls>>

\* updateProfile: validation, then the update executes
UpdateProfile(r) ==
  /\ pc[r] = "updateProfile"
  /\ IF ~UpdateProfileValid(req[r].body)
     THEN /\ Respond(r, "updateProfile", 400, "validation")
          /\ UNCHANGED users
     ELSE IF req[r].user.id \notin DOMAIN users
     THEN \* update of a record that does not exist throws
          /\ Respond(r, "updateProfile", 500, "Internal server error")
          /\ UNCHANGED users
     ELSE /\ users' = [users EXCEPT ![req[r].user.id].name =
                         IF req[r].body.name = NoStr THEN @ ELSE req[r].body.name]
          /\ Respond(r, "updateProfile", 200, "Profile updated successfully")
  /\ UNCHANGED <<nextId, now, held, prismaBound, ratingVars, storeVars, req, calls>>

\* ----------------------------------------------------- auth.controller ----
\* registerUser, lines 490-505: validation, the lookup by email executes
RegisterUser(r) ==
  /\ pc[r] = "registerUser"
  /\ IF ~req[r].body.valid
     THEN Respond(r, "registerUser", 400, "validation")
     ELSE IF FindByEmail(users, req[r].body.email) # Null
     THEN Respond(r, "registerUser", 400, "User already exists with this email.")
     ELSE /\ pc' = [pc EXCEPT ![r] = "registerUser:create"]
          /\ UNCHANGED res
  /\ UNCHANGED <<users, nextId, now, held, prismaBound, ratingVars, storeVars, req, calls>>

\* registerUser, lines 505-534: the hash, the create executes, then user.id
\* is evaluated, where no user is in scope: ReferenceError, caught, 500
RegisterUserCreate(r) ==
  LET b == req[r].body
      role == IF b.role = NoStr THEN "NORMAL_USER" ELSE b.role
      newUser == [id |-> nextId, email |-> b.email, name |-> b.name, role |-> role,
                  password |-> BcryptHash(b.password, BCRYPT_ROUNDS)]
  IN
  /\ pc[r] = "registerUser:create"
  /\ IF FindByEmail(users, b.email) # Null
     THEN \* unique constraint on email
          UNCHANGED <<users, nextId>>
     ELSE /\ users' = users @@ (nextId :> newUser)
          /\ nextId' = nextId + 1
  /\ Respond(r, "registerUser", 500, "Server error creating user.")
  /\ UNCHANGED <<now, held, prismaBound, ratingVars, storeVars, req, calls>>

\* loginUser: validation, the lookup by email executes, the token is signed
LoginUser(r) ==
  LET user == FindByEmail(users, req[r].body.email)
  IN
  /\ pc[r] = "loginUser"
  /\ IF ~req[r].body.valid
     THEN /\ Respond(r, "loginUser", 400, "validation")
          /\ UNCHANGED held
     ELSE IF user = Null
     THEN /\ Respond(r, "loginUser", 400, "Invalid email or password.")
          /\ UNCHANGED held
     ELSE /\ RespondWith(r, "loginUser", 200, "Login successful.", LoginToken(user, now))
          /\ held' = LoginToken(user, now)
  /\ UNCHANGED <<users, nextId, now, prismaBound, ratingVars, storeVars, req, calls>>

\* changePassword, lines 609-614: validation, up to the await of the lookup
ChangePassword(r) ==
  /\ pc[r] = "changePassword"
  /\ IF ~req[r].body.valid
     THEN Respond(r, "changePassword", 400, "validation")
     ELSE /\ pc' = [pc EXCEPT ![r] = "changePassword:compare"]
          /\ UNCHANGED res
  /\ UNCHANGED <<users, nextId, now, held, prismaBound, ratingVars, storeVars, req, calls>>

\* changePassword, lines 617-631: the lookup executes, bcrypt.compare, the hash
ChangePasswordCompare(r) ==
  LET user == FindById(users, req[r].user.id)
  IN
  /\ pc[r] = "changePassword:compare"
  /\ IF user = Null
     THEN \* user.password of null throws
          Respond(r, "changePassword", 500, "Internal server error")
     ELSE IF ~BcryptCompare(req[r].body.password, user.password)
     THEN Respond(r, "changePassword", 400, "Current password is incorrect")
     ELSE /\ pc' = [pc EXCEPT ![r] = "changePassword:update"]
          /\ UNCHANGED res
  /\ UNCHANGED <<users, nextId, now, held, prismaBound, ratingVars, storeVars, req, calls>>

\* changePassword, lines 633-637: the update executes
ChangePasswordUpdate(r) ==
  /\ pc[r] = "changePassword:update"
  /\ IF req[r].user.id \notin DOMAIN users
     THEN /\ Respond(r, "changePassword", 500, "Internal server error")
          /\ UNCHANGED users
     ELSE /\ users' = [users EXCEPT ![req[r].user.id].password =
                         BcryptHash(req[r].body.newPassword, CHANGE_PASSWORD_ROUNDS)]
          /\ Respond(r, "changePassword", 200, "Password changed successfully")
  /\ UNCHANGED <<nextId, now, held, prismaBound, ratingVars, storeVars, req, calls>>

\* ---------------------------------------------------- admin.controller ----
\* createUser, lines 675-691: validation, the lookup by email executes
CreateUser(r) ==
  /\ pc[r] = "createUser"
  /\ IF ~req[r].body.valid
     THEN Respond(r, "createUser", 400, "validation")
     ELSE IF FindByEmail(users, req[r].body.email) # Null
     THEN Respond(r, "createUser", 400, "User already exists with this email")
     ELSE /\ pc' = [pc EXCEPT ![r] = "createUser:create"]
          /\ UNCHANGED res
  /\ UNCHANGED <<users, nextId, now, held, prismaBound, ratingVars, storeVars, req, calls>>

\* createUser, lines 693-718: the hash is commented out, the create executes
\* with the password as it came
CreateUserCreate(r) ==
  LET b == req[r].body
      user == [id |-> nextId, email |-> b.email, name |-> b.name, role |-> b.role,
               password |-> Plaintext(b.password)]
  IN
  /\ pc[r] = "createUser:create"
  /\ IF FindByEmail(users, b.email) # Null
     THEN \* unique constraint on email
          /\ Respond(r, "createUser", 500, "Internal server error")
          /\ UNCHANGED <<users, nextId>>
     ELSE /\ users' = users @@ (nextId :> user)
          /\ nextId' = nextId + 1
          /\ Respond(r, "createUser", 201, "User created successfully")
  /\ UNCHANGED <<now, held, prismaBound, ratingVars, storeVars, req, calls>>

\* deleteUserByAdmin, lines 804-820: the lookup executes
DeleteUserByAdmin(r) ==
  /\ pc[r] = "deleteUserByAdmin"
  /\ IF FindById(users, req[r].id) = Null
     THEN Respond(r, "deleteUserByAdmin", 404, "User not found")
     ELSE IF req[r].id = req[r].user.id
     THEN Respond(r, "deleteUserByAdmin", 400, "You cannot delete your own account")
     ELSE /\ pc' = [pc EXCEPT ![r] = "deleteUserByAdmin:delete"]
          /\ UNCHANGED res
  /\ UNCHANGED <<users, nextId, now, held, prismaBound, ratingVars, storeVars, req, calls>>

\* deleteUserByAdmin, lines 822-830: the delete executes
DeleteUserByAdminDelete(r) ==
  /\ pc[r] = "deleteUserByAdmin:delete"
  /\ IF req[r].id \notin DOMAIN users
     THEN /\ Respond(r, "deleteUserByAdmin", 500, "Internal server error")
          /\ UNCHANGED users
     ELSE /\ users' = [i \in DOMAIN users \ {req[r].id} |-> users[i]]
          /\ Respond(r, "deleteUserByAdmin", 200, "User deleted successfully")
  /\ UNCHANGED <<nextId, now, held, prismaBound, ratingVars, storeVars, req, calls>>

\* updateUser, lines 835-852: validation, the lookup by id executes
UpdateUser(r) ==
  LET existingUser == FindById(users, req[r].id)
  IN
  /\ pc[r] = "updateUser"
  /\ IF ~req[r].body.valid
     THEN Respond(r, "updateUser", 400, "validation")
     ELSE IF existingUser = Null
     THEN Respond(r, "updateUser", 404, "User not found")
     ELSE /\ pc' = [pc EXCEPT ![r] =
                 IF req[r].body.email # NoStr /\ req[r].body.email # existingUser.email
                 THEN "updateUser:email" ELSE "updateUser:update"]
          /\ UNCHANGED res
  /\ UNCHANGED <<users, nextId, now, held, prismaBound, ratingVars, storeVars, req, calls>>

\* updateUser, lines 853-860: the lookup by email executes
UpdateUserEmail(r) ==
  /\ pc[r] = "updateUser:email"
  /\ IF FindByEmail(users, req[r].body.email) # Null
     THEN Respond(r, "updateUser", 400, "Email already exists")
     ELSE /\ pc' = [pc EXCEPT ![r] = "updateUser:update"]
          /\ UNCHANGED res
  /\ UNCHANGED <<users, nextId, now, held, prismaBound, ratingVars, storeVars, req, calls>>

\* updateUser, lines 862-883: the update executes
UpdateUserUpdate(r) ==
  LET b == req[r].body
      id == req[r].id
  IN
  /\ pc[r] = "updateUser:update"
  /\ IF \/ id \notin DOMAIN users
        \/ b.email # NoStr /\ \E i \in DOMAIN users \ {id} : users[i].email = b.email
     THEN \* record to update not found, or unique constraint on email
          /\ Respond(r, "updateUser", 500, "Internal server error")
          /\ UNCHANGED users
     ELSE /\ users' = [users EXCEPT
                 ![id].email = IF b.email = NoStr THEN @ ELSE b.email,
                 ![id].role = IF b.role = NoStr THEN @ ELSE b.role]
          /\ Respond(r, "updateUser", 200, "User updated successfully")
  /\ UNCHANGED <<nextId, now, held, prismaBound, ratingVars, storeVars, req, calls>>

\* ---------------------------------------------------- store.controller ----
\* prisma.store.findUnique({where: {id}}): the record or null
NullStore == [id |-> NoId, name |-> NoStr, ownerId |-> NoId]
FindStore(db, id) == IF id \in DOMAIN db THEN db[id] ELSE NullStore

\* createStoreSchema of lines 5-11: role is required, STORE_OWNER or ADMIN
CreateStoreValid(b) == b.valid /\ b.role \in {"STORE_OWNER", "ADMIN"}

\* createNewStore, lines 102-137, for body b in a process whose global ownerId
\* is g, on User table db: the status it answers, the global it leaves and the
\* owner of the store it creates. A store's owner must be a user of the table.
CreateStoreOutcome(b, g, db) ==
  LET g1 == IF b.role = "ADMIN" THEN b.ownerId ELSE g
  IN  IF ~CreateStoreValid(b) THEN [status |-> 400, global |-> g, owner |-> NoId]
      ELSE IF b.role = "NORMAL_USER" THEN [status |-> 403, global |-> g, owner |-> NoId]
      ELSE IF g1 = Undeclared
      THEN \* ReferenceError: ownerId is not defined
           [status |-> 500, global |-> g1, owner |-> NoId]
      ELSE IF g1 \notin DOMAIN db
      THEN \* foreign key constraint on ownerId
           [status |-> 500, global |-> g1, owner |-> NoId]
      ELSE [status |-> 201, global |-> g1, owner |-> g1]

\* createNewStore of POST /create-store, lines 102-137
CreateNewStore(r) ==
  LET out == CreateStoreOutcome(req[r].body, ownerId, users)
  IN
  /\ pc[r] = "createNewStore"
  /\ ownerId' = out.global
  /\ IF out.status = 201
     THEN /\ stores' = stores @@ (nextStoreId :> [id |-> nextStoreId, name |-> req[r].body.name,
                                                   ownerId |-> out.owner])
          /\ nextStoreId' = nextStoreId + 1
          /\ Respond(r, "createNewStore", 201, "Store created successfully")
     ELSE /\ Respond(r, "createNewStore", out.status,
                     IF out.status = 500 THEN "Internal server error" ELSE "validation")
          /\ UNCHANGED <<stores, nextStoreId>>
  /\ UNCHANGED <<users, nextId, now, held, prismaBound, ratingVars, req, calls>>

\* createNewStore of POST /, lines 320-360: the owner is req.user unless an
\* ADMIN names another; its schema has no role
CreateNewStore2(r) ==
  LET b == req[r].body
      owner == IF req[r].user.role = "ADMIN" /\ b.ownerId # NoId THEN b.ownerId
               ELSE req[r].user.id
  IN
  /\ pc[r] = "createNewStore2"
  /\ IF ~(b.valid /\ b.role = NoStr)
     THEN /\ Respond(r, "createNewStore", 400, "validation")
          /\ UNCHANGED <<stores, nextStoreId>>
     ELSE IF req[r].user.role = "NORMAL_USER"
     THEN /\ Respond(r, "createNewStore", 403, "Only store owners and admins can create stores")
          /\ UNCHANGED <<stores, nextStoreId>>
     ELSE IF owner \notin DOMAIN users
     THEN /\ Respond(r, "createNewStore", 500, "Internal server error")
          /\ UNCHANGED <<stores, nextStoreId>>
     ELSE /\ stores' = stores @@ (nextStoreId :> [id |-> nextStoreId, name |-> b.name,
                                                   ownerId |-> owner])
          /\ nextStoreId' = nextStoreId + 1
          /\ Respond(r, "createNewStore", 201, "Store created successfully")
  /\ UNCHANGED <<users, nextId, now, held, prismaBound, ratingVars, ownerId, req, calls>>

\* whether lines 160 and 194 let the requester at the store
MayChange(user, store) == user.role = "ADMIN" \/ store.ownerId = user.id

\* updateNewStore without the check of lines 160-164
UpdateNewStoreNoOwnerCheck(r) ==
  LET existingStore == FindStore(stores, req[r].id)
  IN
  /\ pc[r] = "updateNewStore"
  /\ IF req[r].id = NoId
     THEN Respond(r, "updateNewStore", 400, "Invalid store ID")
     ELSE IF ~req[r].body.valid
     THEN Respond(r, "updateNewStore", 400, "validation")
     ELSE IF existingStore = NullStore
     THEN Respond(r, "updateNewStore", 404, "Store not found")
     ELSE /\ pc' = [pc EXCEPT ![r] = "updateNewStore:update"]
          /\ UNCHANGED res
  /\ UNCHANGED <<users, nextId, now, held, prismaBound, ratingVars, storeVars, req, calls>>

\* updateNewStore, lines 141-164: the id, validation, the lookup executes, the
\* ownership check
UpdateNewStore(r) ==
  LET existingStore == FindStore(stores, req[r].id)
  IN
  /\ pc[r] = "updateNewStore"
  /\ IF req[r].id = NoId
     THEN Respond(r, "updateNewStore", 400, "Invalid store ID")
     ELSE IF ~req[r].body.valid
     THEN Respond(r, "updateNewStore", 400, "validation")
     ELSE IF existingStore = NullStore
     THEN Respond(r, "updateNewStore", 404, "Store not found")
     ELSE IF ~MayChange(req[r].user, existingStore)
     THEN Respond(r, "updateNewStore", 403, "You can only update your own stores")
     ELSE /\ pc' = [pc EXCEPT ![r] = "updateNewStore:update"]
          /\ UNCHANGED res
  /\ UNCHANGED <<users, nextId, now, held, prismaBound, ratingVars, storeVars, req, calls>>

\* updateNewStore, lines 166-179: the update executes
UpdateNewStoreUpdate(r) ==
  /\ pc[r] = "updateNewStore:update"
  /\ IF req[r].id \notin DOMAIN stores
     THEN /\ Respond(r, "updateNewStore", 500, "Internal server error")
          /\ UNCHANGED stores
     ELSE /\ stores' = [stores EXCEPT ![req[r].id].name = req[r].body.name]
          /\ Respond(r, "updateNewStore", 200, "Store updated successfully")
  /\ UNCHANGED <<users, nextId, now, held, prismaBound, ratingVars, nextStoreId, ownerId, req, calls>>

\* deleteStore, lines 184-198: the id, the lookup executes, the ownership check
DeleteStore(r) ==
  LET existingStore == FindStore(stores, req[r].id)
  IN
  /\ pc[r] = "deleteStore"
  /\ IF req[r].id = NoId
     THEN Respond(r, "deleteStore", 400, "Invalid store ID")
     ELSE IF existingStore = NullStore
     THEN Respond(r, "deleteStore", 404, "Store not found")
     ELSE IF ~MayChange(req[r].user, existingStore)
     THEN Respond(r, "deleteStore", 403, "You can only delete your own stores")
     ELSE /\ pc' = [pc EXCEPT ![r] = "deleteStore:delete"]
          /\ UNCHANGED res
  /\ UNCHANGED <<users, nextId, now, held, prismaBound, ratingVars, storeVars, req, calls>>

\* deleteStore, lines 200-208: the delete executes
DeleteStoreDelete(r) ==
  /\ pc[r] = "deleteStore:delete"
  /\ IF req[r].id \notin DOMAIN stores
     THEN /\ Respond(r, "deleteStore", 500, "Internal server error")
          /\ UNCHANGED stores
     ELSE /\ stores' = [i \in DOMAIN stores \ {req[r].id} |-> stores[i]]
          /\ Respond(r, "deleteStore", 200, "Store deleted successfully")
  /\ UNCHANGED <<users, nextId, now, held, prismaBound, ratingVars, nextStoreId, ownerId, req, calls>>

\* --------------------------------------------------- rating.controller ----
\* prisma.rating.findUnique({where: {userId_storeId}}): the record or null; the
\* compound key userId_storeId is the unique constraint of the Rating table
NullRating == [id |-> NoId, userId |-> NoId, storeId |-> NoId, rating |-> NoId]
FindRating(db, u, st) ==
  IF \E i \in DOMAIN db : db[i].userId = u /\ db[i].storeId = st
  THEN db[CHOOSE i \in DOMAIN db : db[i].userId = u /\ db[i].storeId = st]
  ELSE NullRating

\* createRating, lines 17-38: validation, the store lookup executes, the
\* own-store check
CreateRating(r) ==
  LET store == FindStore(stores, req[r].body.storeId)
  IN
  /\ pc[r] = "createRating"
  /\ IF ~req[r].body.valid
     THEN Respond(r, "createRating", 400, "validation")
     ELSE IF store = NullStore
     THEN Respond(r, "createRating", 404, "Store not found")
     ELSE IF store.ownerId = req[r].user.id
     THEN Respond(r, "createRating", 400, "You cannot rate your own store")
     ELSE /\ pc' = [pc EXCEPT ![r] = "createRating:existing"]
          /\ UNCHANGED res
  /\ UNCHANGED <<users, nextId, now, held, prismaBound, storeVars, ratingVars, req, calls>>

\* createRating, lines 41-51: the lookup of the requester's rating executes
CreateRatingExisting(r) ==
  /\ pc[r] = "createRating:existing"
  /\ existingRating' = [existingRating EXCEPT ![r] =
                          FindRating(ratings, req[r].user.id, req[r].body.storeId).id]
  /\ pc' = [pc EXCEPT ![r] = "createRating:write"]
  /\ UNCHANGED <<users, nextId, now, held, prismaBound, storeVars, ratings, nextRatingId,
                 req, calls, res>>

\* createRating, lines 51-94: the update of the rating found, or the create,
\* executes; a create for a pair that has a rating violates userId_storeId and
\* throws, as does one for a store or user that is gone
CreateRatingWrite(r) ==
  LET u == req[r].user.id
      st == req[r].body.storeId
  IN
  /\ pc[r] = "createRating:write"
  /\ existingRating' = [existingRating EXCEPT ![r] = NoId]
  /\ IF existingRating[r] # NoId
     THEN IF existingRating[r] \notin DOMAIN ratings
          THEN /\ Respond(r, "createRating", 500, "Internal server error")
               /\ UNCHANGED <<ratings, nextRatingId>>
          ELSE /\ ratings' = [ratings EXCEPT ![existingRating[r]].rating = req[r].body.rating]
               /\ Respond(r, "createRating", 200, "Rating updated successfully")
               /\ UNCHANGED nextRatingId
     ELSE IF \/ FindRating(ratings, u, st) # NullRating
             \/ st \notin DOMAIN stores
             \/ u \notin DOMAIN users
          THEN /\ Respond(r, "createRating", 500, "Internal server error")
               /\ UNCHANGED <<ratings, nextRatingId>>
          ELSE /\ ratings' = ratings @@ (nextRatingId :> [id |-> nextRatingId, userId |-> u,
                                                         storeId |-> st,
                                                         rating |-> req[r].body.rating])
               /\ nextRatingId' = nextRatingId + 1
               /\ Respond(r, "createRating", 201, "Rating created successfully")
  /\ UNCHANGED <<users, nextId, now, held, prismaBound, storeVars, req, calls>>

\* the steps of request r
Step(r) ==
  \/ VerifyToken(r)
  \/ VerifyTokenResume(r)
  \/ RequireRole(r)
  \/ GetUserProfile(r)
  \/ UpdateProfile(r)
  \/ LoginUser(r)
  \/ DeleteUserByAdmin(r)
  \/ DeleteUserByAdminDelete(r)
  \/ UpdateUser(r)
  \/ UpdateUserEmail(r)
  \/ UpdateUserUpdate(r)

\* the server handling one request after another
Next ==
  \/ Tick
  \/ \E id \in Ids : IssueToken(id)
  \/ Arrive("r1")
  \/ Step("r1")

Spec == Init /\ [][Next]_vars

\* ------------------------------------------- requests running together ----
\* a profile request of the client, or a deletion by an administrator
ArriveRace(r) ==
  \E q \in Requests({"getUserProfile", "updateProfile", "deleteUserByAdmin"}) :
    /\ q.roles # NoRoles => q.op \in AdminOps
    /\ q.authorization \in PlainAuthorizations \cup FreshAuthorizations
    /\ Start(r, q)

StepRace(r) ==
  \/ VerifyToken(r)
  \/ VerifyTokenResume(r)
  \/ RequireRole(r)
  \/ GetUserProfile(r)
  \/ UpdateProfile(r)
  \/ DeleteUserByAdmin(r)
  \/ DeleteUserByAdminDelete(r)

\* the server with two requests in progress, their steps interleaved by the
\* event loop in any order
NextRace ==
  \/ \E id \in Ids : IssueToken(id)
  \/ \E r \in Reqs : ArriveRace(r)
  \/ \E r \in Reqs : StepRace(r)

SpecRace == Init /\ [][NextRace]_vars

\* ---------------------------------------- the Credential Store in trouble ----
\* a profile request of a client that keeps its token
ArriveFaults(r) ==
  \E q \in Requests({"getUserProfile", "updateProfile"}) :
    /\ q.roles = NoRoles
    /\ q.authorization \in PlainAuthorizations
    /\ Start(r, q)

StepFaults(r) ==
  \/ VerifyToken(r)
  \/ VerifyTokenResume(r)
  \/ VerifyTokenLookupError(r)
  \/ VerifyTokenLookupStalls(r)
  \/ GetUserProfile(r)
  \/ UpdateProfile(r)

\* the server with lookups that can fail or hang
NextFaults ==
  \/ \E id \in Ids : IssueToken(id)
  \/ \E r \in Reqs : ArriveFaults(r)
  \/ \E r \in Reqs : StepFaults(r)

SpecFaults == Init /\ [][NextFaults]_vars

\* ------------------------------------------------------- the accounts ----
\* a server started on an empty User table
InitAccounts ==
  /\ InitStores
  /\ InitRatings
  /\ users = <<>>
  /\ nextId = 1
  /\ now = 0
  /\ held = NoToken
  /\ prismaBound \in BOOLEAN
  /\ pc = [r \in Reqs |-> "idle"]
  /\ req = [r \in Reqs |-> IdleReq]
  /\ calls = [r \in Reqs |-> <<>>]
  /\ res = [r \in Reqs |-> <<>>]

\* a request to the routes that create, read and change accounts, from clients
\* that ask for a token as they need one; the table takes MaxUsers records and
\* the administrators change roles
ArriveAccounts(r) ==
  \E q \in Requests({"registerUser", "createUser", "loginUser", "changePassword",
                     "updateProfile", "updateUser"}) :
    \E a \in FreshAuthorizations \cup {<<>>} :
      /\ q.op \in {"registerUser", "createUser"} => nextId <= MaxUsers
      /\ q.op = "updateUser" => q.body.role # NoStr
      /\ Start(r, [q EXCEPT !.authorization = IF q.verify THEN a ELSE <<>>])

StepAccounts(r) ==
  \/ VerifyToken(r)
  \/ VerifyTokenResume(r)
  \/ RequireRole(r)
  \/ RegisterUser(r)
  \/ RegisterUserCreate(r)
  \/ CreateUser(r)
  \/ CreateUserCreate(r)
  \/ LoginUser(r)
  \/ ChangePassword(r)
  \/ ChangePasswordCompare(r)
  \/ ChangePasswordUpdate(r)
  \/ UpdateProfile(r)
  \/ UpdateUser(r)
  \/ UpdateUserUpdate(r)

\* the server handling one account request after another
NextAccounts ==
  \/ ArriveAccounts("r1")
  \/ StepAccounts("r1")

SpecAccounts == InitAccounts /\ [][NextAccounts]_vars

\* --------------------------------------------------------- the stores ----
\* a request to the store routes, from clients that ask for a token as they
\* need one; the table takes MaxStores records
ArriveStores(r) ==
  \E q \in Requests({"createNewStore", "createNewStore2"} \cup StoreIdOps) :
    \E a \in FreshAuthorizations \cup {<<>>} :
      /\ q.op \in {"createNewStore", "createNewStore2"} => nextStoreId <= MaxStores
      /\ Start(r, [q EXCEPT !.authorization = IF q.verify THEN a ELSE <<>>])

StepStores(r) ==
  \/ VerifyToken(r)
  \/ VerifyTokenResume(r)
  \/ CreateNewStore(r)
  \/ CreateNewStore2(r)
  \/ UpdateNewStore(r)
  \/ UpdateNewStoreUpdate(r)
  \/ DeleteStore(r)
  \/ DeleteStoreDelete(r)

\* the server handling one store request after another
NextStores ==
  \/ ArriveStores("r1")
  \/ StepStores("r1")

SpecStores == Init /\ [][NextStores]_vars

\* -------------------------------------------------------- the ratings ----
\* the tables as earlier requests left them: the administrator owns store 1
SeedStores == 1 :> [id |-> 1, name |-> "Shop", ownerId |-> 2]

InitSeeded ==
  /\ InitRatings
  /\ stores = SeedStores
  /\ nextStoreId = 2
  /\ ownerId = 2
  /\ users = SeedUsers
  /\ nextId = 3
  /\ now = 0
  /\ held = NoToken
  /\ prismaBound \in BOOLEAN
  /\ pc = [r \in Reqs |-> "idle"]
  /\ req = [r \in Reqs |-> IdleReq]
  /\ calls = [r \in Reqs |-> <<>>]
  /\ res = [r \in Reqs |-> <<>>]

\* a rating from a client that asks for a token as it needs one
ArriveRatings(r) ==
  \E q \in Requests({"createRating"}) :
    \E a \in FreshAuthorizations :
      Start(r, [q EXCEPT !.authorization = a])

StepRatings(r) ==
  \/ VerifyToken(r)
  \/ VerifyTokenResume(r)
  \/ CreateRating(r)
  \/ CreateRatingExisting(r)
  \/ CreateRatingWrite(r)

\* the server with two ratings in progress, their steps interleaved by the
\* event loop in any order
NextRatings ==
  \/ \E r \in Reqs : ArriveRatings(r)
  \/ \E r \in Reqs : StepRatings(r)

SpecRatings == InitSeeded /\ [][NextRatings]_vars

\* ------------------------------------------------- the e-mail addresses ----
\* a request that brings an e-mail address to the User table, from clients
\* that ask for a token as they need one
ArriveEmails(r) ==
  \E q \in Requests({"registerUser", "createUser", "updateUser"}) :
    \E a \in FreshAuthorizations \cup {<<>>} :
      /\ q.body.valid
      /\ q.body.email # NoStr
      /\ q.op \in {"registerUser", "createUser"} => nextId <= MaxUsers
      /\ Start(r, [q EXCEPT !.authorization = IF q.verify THEN a ELSE <<>>])

StepEmails(r) ==
  \/ VerifyToken(r)
  \/ VerifyTokenResume(r)
  \/ RequireRole(r)
  \/ RegisterUser(r)
  \/ RegisterUserCreate(r)
  \/ CreateUser(r)
  \/ CreateUserCreate(r)
  \/ UpdateUser(r)
  \/ UpdateUserEmail(r)
  \/ UpdateUserUpdate(r)

\* the server started on an empty User table with two such requests in
\* progress, their steps interleaved by the event loop in any order
NextEmails ==
  \/ \E r \in Reqs : ArriveEmails(r)
  \/ \E r \in Reqs : StepEmails(r)

SpecEmails == InitAccounts /\ [][NextEmails]_vars

\* ------------------------------------------------------------- claims ----
\* the token of a request, and whether the server signed its payload
Token(r) == BearerToken(req[r].authorization)
ValidSig(t) == t.wf /\ t.sig = HMAC(t.payload, JWT_SECRET)

\* the request went through verifyToken and has left it
VerifyDone(r) ==
  req[r].verify /\ pc[r] \notin {"idle", "verifyToken", "verifyToken:await"}
\* how often a request's middleware made a call
Count(r, what) == Cardinality({k \in 1..Len(calls[r]) : calls[r][k] = what})
\* verifyToken called next()
Passed(r) == Count(r, "verifyToken:next") > 0
\* the responses verifyToken sent
ByVerifier(r) == {k \in 1..Len(res[r]) : res[r][k].by = "verifyToken"}
Failure401(by, m) == [by |-> by, status |-> 401, message |-> m, token |-> NoToken]
\* the request is in its business handler
InHandler(r) ==
  pc[r] \in {"getUserProfile", "updateProfile", "deleteUserByAdmin", "deleteUserByAdmin:delete",
             "updateUser", "updateUser:email", "updateUser:update"}

\* C1: a token made by generateToken(id) for a user of the table, presented
\* before its expiry, makes verifyToken call next() with req.user.id = id.
C1_IssuedTokenAccepted ==
  \A r \in Reqs :
    (/\ VerifyDone(r)
     /\ \E i \in DOMAIN users, t0 \in 0..MaxTime :
          Token(r) = generateToken(i, t0) /\ now < t0 + JWT_EXPIRES_IN)
    => (Passed(r) /\ req[r].user.id = Token(r).payload.userId)

\* C2: a token returned by a successful loginUser for a user of the table,
\* presented before its expiry, is accepted by verifyToken with req.user.id
\* that user's id, as a generateToken token is (here where prisma resolves).
C2_LoginTokenAccepted ==
  \A r \in Reqs :
    (/\ VerifyDone(r)
     /\ prismaBound
     /\ \E i \in DOMAIN users, ro \in Roles, t0 \in 0..MaxTime :
          Token(r) = LoginToken([id |-> i, role |-> ro], t0) /\ now < t0 + LOGIN_EXPIRES_IN)
    => (Passed(r) /\ req[r].user.id = Token(r).payload.id)

\* C3: when verifyToken runs on a token that is malformed, or whose payload or
\* signature was tampered with, or whose expiry has passed, the request ends
\* there with the single response 401 "Invalid token.", next() is not called
\* and req.user is left unset.
C3_BadTokenRejected ==
  [][\A r \in Reqs :
       (/\ pc[r] = "verifyToken"
        /\ pc'[r] # "verifyToken"
        /\ Token(r) # NoToken
        /\ \/ ~Token(r).wf
           \/ Token(r).sig # HMAC(Token(r).payload, JWT_SECRET)
           \/ now >= Token(r).payload.exp)
       => (/\ pc'[r] = "done"
           /\ res'[r] = <<Failure401("verifyToken", "Invalid token.")>>
           /\ Count(r, "verifyToken:next")' = 0
           /\ req'[r].user = Undefined)]_vars

\* C3 happens: a token the server signed for a user of the table was presented
\* after its expiry and answered 401 "Invalid token.".
C3_ExpiredTokenRejected ==
  \E r \in Reqs :
    /\ pc[r] = "done" /\ req[r].verify /\ prismaBound
    /\ ValidSig(Token(r))
    /\ Token(r).payload.userId \in DOMAIN users
    /\ now >= Token(r).payload.exp
    /\ res[r] = <<Failure401("verifyToken", "Invalid token.")>>
    /\ req[r].user = Undefined

\* C4: a request whose validly signed token names a user deleted from the
\* table ends in verifyToken with a single 401; next() is not called and no
\* handler runs.
C4_DeletedUserRejected ==
  \A r \in Reqs :
    (/\ VerifyDone(r)
     /\ ValidSig(Token(r))
     /\ Token(r).payload.userId \in (1..(nextId - 1)) \ DOMAIN users)
    => (/\ pc[r] = "done"
        /\ Len(res[r]) = 1
        /\ res[r][1].by = "verifyToken"
        /\ res[r][1].status = 401
        /\ ~Passed(r)
        /\ Count(r, "requireRole:next") = 0)

\* C4 happens: the lookup ran for an unexpired token of a deleted user and the
\* request was answered 401 "User not found".
C4_StaleIdentitySeen ==
  \E r \in Reqs :
    /\ pc[r] = "done" /\ req[r].verify
    /\ ValidSig(Token(r))
    /\ now < Token(r).payload.exp
    /\ Token(r).payload.userId \in (1..(nextId - 1)) \ DOMAIN users
    /\ calls[r] = <<"jwt.verify", "user.findUnique">>
    /\ res[r] = <<Failure401("verifyToken", "User not found")>>

\* C5: a request without an Authorization header, or with one that is not of
\* the form Bearer <token>, is answered 401 "Unauthorized." at once: jwt.verify
\* is not called, the table is not read, next() is not called.
C5_NonBearerRejectedAtOnce ==
  \A r \in Reqs :
    (/\ VerifyDone(r)
     /\ \/ Len(req[r].authorization) < 2
        \/ req[r].authorization[1] # "Bearer")
    => (/\ pc[r] = "done"
        /\ res[r] = <<Failure401("verifyToken", "Unauthorized.")>>
        /\ calls[r] = <<>>)

\* C6: after updateUser changed a user's role, a request carrying a token that
\* loginUser gave that user before the change reaches its handler or gate with
\* req.user.role the role of the table (here where prisma resolves).
C6_RoleChangeSeenByOldToken ==
  \A r \in Reqs :
    (/\ VerifyDone(r)
     /\ prismaBound
     /\ \E i \in DOMAIN users, t0 \in 0..MaxTime :
          \E ro \in Roles \ {users[i].role} :
            Token(r) = LoginToken([id |-> i, role |-> ro], t0) /\ now < t0 + LOGIN_EXPIRES_IN)
    => (Passed(r) /\ req[r].user.role = users[Token(r).payload.id].role)

\* C7: once the gate of requireRole(roles) has run on a request, next() was
\* called exactly when req.user is set and its role is in roles; with req.user
\* unset the one response is 401 by the gate, with a role outside roles it is
\* 403 by the gate, and in both no handler ran.
C7_RoleGate ==
  \A r \in Reqs :
    (/\ req[r].roles # NoRoles
     /\ pc[r] \notin {"idle", "verifyToken", "verifyToken:await", "requireRole"}
     /\ req[r].verify => Passed(r))
    => IF req[r].user = Undefined
       THEN /\ Count(r, "requireRole:next") = 0
            /\ pc[r] = "done"
            /\ res[r] = <<Failure401("requireRole", "Authentication required")>>
       ELSE IF req[r].user.role \notin req[r].roles
       THEN /\ Count(r, "requireRole:next") = 0
            /\ pc[r] = "done"
            /\ res[r] = <<[by |-> "requireRole", status |-> 403,
                           message |-> "Insufficient permissions", token |-> NoToken]>>
       ELSE /\ Count(r, "requireRole:next") = 1
            /\ \A k \in 1..Len(res[r]) : res[r][k].by # "requireRole"

\* C7 happens: a verified NORMAL_USER met a gate that allows other roles and
\* was answered 403.
C7_ForbiddenSeen ==
  \E r \in Reqs :
    /\ pc[r] = "done" /\ Passed(r)
    /\ req[r].user.role = "NORMAL_USER"
    /\ req[r].roles = {"ADMIN", "STORE_OWNER"}
    /\ Len(res[r]) = 1 /\ res[r][1].status = 403

\* C8: every response verifyToken sends for a failed authentication has the
\* status and body of the one it sends for a missing token, whatever the cause.
C8_FailuresIndistinguishable ==
  \A r \in Reqs :
    \A k \in ByVerifier(r) : res[r][k] = Failure401("verifyToken", "Unauthorized.")

\* C9: a request that entered verifyToken has, while it is there, neither a
\* response nor a call of next(); after it, either next() was never called and
\* the request ended with exactly one response, a 401 by verifyToken, or next()
\* was called exactly once, verifyToken sent nothing, jwt.verify accepted the
\* token and the lookup returned the record req.user now holds.
C9_OneOutcome ==
  \A r \in Reqs :
    req[r].verify =>
      IF pc[r] \in {"verifyToken", "verifyToken:await"}
      THEN res[r] = <<>> /\ Count(r, "verifyToken:next") = 0
      ELSE \/ /\ Count(r, "verifyToken:next") = 0
              /\ pc[r] = "done"
              /\ Len(res[r]) = 1
              /\ res[r][1].by = "verifyToken"
              /\ res[r][1].status = 401
           \/ /\ Count(r, "verifyToken:next") = 1
              /\ ByVerifier(r) = {}
              /\ ValidSig(Token(r))
              /\ Count(r, "jwt.verify") = 1 /\ Count(r, "user.findUnique") = 1
              /\ DOMAIN req[r].user = {"id", "email", "name", "role"}
              /\ req[r].user.id = Token(r).payload.userId
              /\ req[r].user.id \in 1..(nextId - 1)

\* C9 happens: a request passed verifyToken once and its handler answered 200.
C9_PassedSeen ==
  \E r \in Reqs :
    /\ pc[r] = "done" /\ req[r].verify /\ req[r].op = "updateProfile"
    /\ Count(r, "verifyToken:next") = 1
    /\ Len(res[r]) = 1 /\ res[r][1].by = "updateProfile" /\ res[r][1].status = 200

\* C10 as stated: whenever a handler behind verifyToken runs, req.user is a
\* user of the table, whatever a concurrent deleteUserByAdmin does.
C10_HandlerSeesExistingUser ==
  \A r \in Reqs :
    (req[r].verify /\ InHandler(r)) => req[r].user.id \in DOMAIN users

\* C10 amended: when the lookup of verifyToken executes and verifyToken calls
\* next(), req.user becomes the record the table holds for the token's user at
\* that moment; and the user of a request in its handler leaves the table only
\* by the delete of a deleteUserByAdmin of another request, executing between
\* that lookup and the handler's own database call.
C10_ExistsAtLookup ==
  [][\A r \in Reqs :
       /\ (pc[r] = "verifyToken:await" /\ Count(r, "verifyToken:next")' = 1)
          => /\ req[r].user.userId \in DOMAIN users
             /\ req'[r].user = SelectPublic(users[req[r].user.userId])
       /\ (/\ req[r].verify /\ InHandler(r)
           /\ req[r].user.id \in DOMAIN users
           /\ req[r].user.id \notin DOMAIN users')
          => \E s \in Reqs \ {r} :
               /\ pc[s] = "deleteUserByAdmin:delete"
               /\ pc'[s] = "done"
               /\ req[s].id = req[r].user.id]_vars

\* C10 happens: a request is in its handler with its user in the table while
\* the delete of that user by another request is about to execute.
C10_DeleteRacesHandler ==
  \E r \in Reqs, s \in Reqs :
    /\ r # s
    /\ req[r].verify /\ pc[r] = "updateProfile"
    /\ req[r].user.id \in DOMAIN users
    /\ pc[s] = "deleteUserByAdmin:delete"
    /\ req[s].id = req[r].user.id

C13_RoleChangesOnlyByAdminUpdate ==
  [][/\ \A i \in DOMAIN users \cap DOMAIN users' :
          users'[i].role # users[i].role =>
            \E r \in Reqs :
              /\ pc[r] = "updateUser:update" /\ pc'[r] = "done"
              /\ req[r].id = i /\ req[r].body.role = users'[i].role
     /\ \A i \in DOMAIN users' \ DOMAIN users :
          \E r \in Reqs :
            \/ /\ pc[r] = "registerUser:create"
               /\ users'[i].role = IF req[r].body.role = NoStr THEN "NORMAL_USER"
                                   ELSE req[r].body.role
            \/ /\ pc[r] = "createUser:create"
               /\ users'[i].role = req[r].body.role]_vars

\* C13 happens: a user registered without a role changed the password and was
\* refused a profile update that carried a role, and is a NORMAL_USER still.
C13_DefaultRoleKept ==
  \E r \in Reqs, i \in DOMAIN users :
    /\ pc[r] = "done" /\ req[r].op = "updateProfile" /\ req[r].body.role = "ADMIN"
    /\ Passed(r) /\ req[r].user.id = i
    /\ res[r][1].status = 400
    /\ users[i].password.cost = CHANGE_PASSWORD_ROUNDS
    /\ users[i].role = "NORMAL_USER"

\* a token the server issued, by generateToken or by loginUser, to a user who
\* is in the table
IssuedToLiveUser(t) ==
  \E i \in DOMAIN users, t0 \in 0..MaxTime :
    \/ t = generateToken(i, t0)
    \/ \E ro \in Roles : t = LoginToken([id |-> i, role |-> ro], t0)

\* C14: a token the server issued lives exactly as long as its expiry window:
\* presented at any moment before its expiry, while its user is in the table,
\* verifyToken accepts it whatever requests were served in between, and
\* presented at any moment from its expiry on, verifyToken rejects it.
C14_LivesExactlyUntilExpiry ==
  [][\A r \in Reqs :
       /\ (/\ VerifyDone(r)'
           /\ IssuedToLiveUser(Token(r))'
           /\ now' < Token(r).payload.exp')
          => Passed(r)'
       /\ (/\ pc[r] = "verifyToken" /\ pc'[r] # "verifyToken"
           /\ Token(r) # NoToken /\ ValidSig(Token(r))
           /\ now >= Token(r).payload.exp)
          => (pc'[r] = "done" /\ res'[r][1].status = 401)]_vars

\* C15: in every state the password of every User record is a digest made by
\* bcrypt, never the password itself, so that bcrypt.compare of changePassword
\* succeeds for the password the account was created with.
C15_PasswordsAreDigests ==
  \A i \in DOMAIN users :
    /\ users[i].password.alg = "bcrypt"
    /\ users[i].password.cost \in {BCRYPT_ROUNDS, CHANGE_PASSWORD_ROUNDS}
    /\ users[i].password.cost = BCRYPT_ROUNDS =>
         BcryptCompare("Passw0rd!", users[i].password)

\* C16: when the create of a registerUser executes for a valid body whose
\* email is not in the table, exactly one record is added and the response is
\* 201 with a token for the new user's id; and whenever that step adds a
\* record, the response is the 201, never an error.
C16_RegisterAnswers201 ==
  [][\A r \in Reqs :
       (pc[r] = "registerUser:create" /\ pc'[r] = "done") =>
         /\ FindByEmail(users, req[r].body.email) = Null =>
              /\ DOMAIN users' = DOMAIN users \cup {nextId}
              /\ users'[nextId].email = req[r].body.email
              /\ res'[r] = <<[by |-> "registerUser", status |-> 201,
                              message |-> "User created successfully.",
                              token |-> generateToken(nextId, now)]>>
         /\ res'[r][1].status >= 400 => users' = users]_vars

\* C18: loginUser answers 200 'Login successful.' with a token only when the
\* submitted password is the password of the user with the submitted email;
\* with any other password for an existing email it answers 400 without a
\* token.
C18_LoginChecksPassword ==
  \A r \in Reqs :
    (pc[r] = "done" /\ req[r].op = "loginUser" /\ req[r].body.valid
     /\ FindByEmail(users, req[r].body.email) # Null) =>
      LET user == FindByEmail(users, req[r].body.email)
      IN  IF user.password.of = req[r].body.password
          THEN TRUE
          ELSE /\ res[r][1].status = 400
               /\ res[r][1].token = NoToken

\* C17: a Store record is created only by a request that verifyToken let
\* through with a live role of STORE_OWNER or ADMIN: every step that adds a
\* record to the Store table is the create step of such a request, whatever
\* role its body declares.
C17_StoreOnlyForOwnerOrAdmin ==
  [][(DOMAIN stores' \ DOMAIN stores # {}) =>
       \E r \in Reqs :
         /\ pc[r] \in {"createNewStore", "createNewStore2"}
         /\ pc'[r] = "done"
         /\ Passed(r)
         /\ req[r].user.role \in {"STORE_OWNER", "ADMIN"}]_vars

\* C19: createNewStore is request-scoped: the status a create step answers
\* and the owner of the store it creates are those the same request gets from
\* the same database in a process that handled no request before it.
C19_CreateNewStoreRequestScoped ==
  [][\A r \in Reqs :
       (pc[r] = "createNewStore" /\ pc'[r] = "done") =>
         LET alone == CreateStoreOutcome(req[r].body, Undeclared, users)
         IN  /\ res'[r][1].status = alone.status
             /\ \A i \in DOMAIN stores' \ DOMAIN stores : stores'[i].ownerId = alone.owner
             /\ (alone.status = 201) => (DOMAIN stores' # DOMAIN stores)]_vars

\* the store the request names, and whether its requester may change it
Named(r) == FindStore(stores, req[r].id)
Permitted(r) ==
  req[r].user.role = "ADMIN" \/ req[r].user.id = Named(r).ownerId
\* request r takes the first step of updateNewStore or deleteStore
EntersStoreHandler(r) == pc[r] \in StoreIdOps /\ pc'[r] # pc[r]
\* the step answers request r with status s and leaves the Store table alone
Refuses(r, s) ==
  /\ pc'[r] = "done"
  /\ res'[r][1].status = s
  /\ stores' = stores
\* an existing store is changed or removed only by the write step of a request
\* for it whose requester verifyToken let through and who is ADMIN or its owner
WrittenOnlyByAdminOrOwner ==
  \A i \in DOMAIN stores :
    (i \notin DOMAIN stores' \/ stores'[i] # stores[i]) =>
      \E r \in Reqs :
        /\ pc[r] \in {"updateNewStore:update", "deleteStore:delete"}
        /\ req[r].id = i
        /\ Passed(r)
        /\ Permitted(r)

\* C20 as stated: updateNewStore and deleteStore change or remove a store S
\* only for an ADMIN or the owner of S; any other requester is answered 403
\* and a numeric id of no store 404, the Store table unchanged.
C20_AdminOrOwnerElse403Or404 ==
  [][/\ WrittenOnlyByAdminOrOwner
     /\ \A r \in Reqs :
          EntersStoreHandler(r) =>
            /\ (Named(r) # NullStore /\ ~Permitted(r)) => Refuses(r, 403)
            /\ (req[r].id # NoId /\ Named(r) = NullStore) => Refuses(r, 404)]_vars

\* C20 as the code has it: the id and the body are validated first, so a
\* request whose id is not a number or whose body fails updateStoreSchema is
\* answered 400; otherwise a nonexistent store id is answered 404 and a
\* requester who is neither ADMIN nor the owner 403; in all three cases the
\* Store table is unchanged, and a store is changed or removed only for an
\* ADMIN or its owner.
C20_ValidatedThenAdminOrOwner ==
  [][/\ WrittenOnlyByAdminOrOwner
     /\ \A r \in Reqs :
          EntersStoreHandler(r) =>
            LET malformed == \/ req[r].id = NoId
                             \/ req[r].op = "updateNewStore" /\ ~req[r].body.valid
            IN  /\ malformed => Refuses(r, 400)
                /\ (~malformed /\ Named(r) = NullStore) => Refuses(r, 404)
                /\ (~malformed /\ Named(r) # NullStore /\ ~Permitted(r)) => Refuses(r, 403)
                /\ (~malformed /\ Named(r) # NullStore /\ Permitted(r)) =>
                     /\ pc'[r] \in {"updateNewStore:update", "deleteStore:delete"}
                     /\ stores' = stores]_vars

\* C20 witness: a requester who is neither ADMIN nor the owner of an existing
\* store was answered 403 by updateNewStore or deleteStore.
C20_StrangerRefused ==
  \E r \in Reqs :
    /\ pc[r] = "done"
    /\ req[r].op \in StoreIdOps
    /\ Passed(r)
    /\ Named(r) # NullStore
    /\ ~Permitted(r)
    /\ res[r] = <<[by |-> req[r].op, status |-> 403,
                   message |-> IF req[r].op = "updateNewStore"
                               THEN "You can only update your own stores"
                               ELSE "You can only delete your own stores",
                   token |-> NoToken]>>

\* the Rating records of user u for store st
RatingsOf(u, st) == {i \in DOMAIN ratings : ratings[i].userId = u /\ ratings[i].storeId = st}

\* C21: createRating is an atomic upsert per (user, store): every createRating
\* call, under any interleaving, by a user for an existing store they do not
\* own completes with 201 or 200, never 500, and afterwards exactly one Rating
\* record exists for that (userId, storeId) pair.
C21_AtomicUpsert ==
  \A r \in Reqs :
    (/\ pc[r] = "done"
     /\ req[r].op = "createRating"
     /\ Passed(r)
     /\ req[r].body.valid
     /\ FindStore(stores, req[r].body.storeId) # NullStore
     /\ FindStore(stores, req[r].body.storeId).ownerId # req[r].user.id) =>
      /\ res[r][1].status \in {200, 201}
      /\ Cardinality(RatingsOf(req[r].user.id, req[r].body.storeId)) = 1

\* the users other than id who hold e-mail address e
HeldByOther(db, e, id) == {i \in DOMAIN db \ {id} : db[i].email = e}
NoSharedEmail == \A i, j \in DOMAIN users : users[i].email = users[j].email => i = j
\* the step ends request r in registerUser, createUser or updateUser
EndsEmailRequest(r) ==
  /\ pc[r] \in {"registerUser", "registerUser:create", "createUser", "createUser:create",
                 "updateUser", "updateUser:email", "updateUser:update"}
  /\ pc'[r] = "done"

\* C22: no two User records ever share an email, and registerUser, createUser
\* and updateUser (of an existing user) each end a request whose email another
\* user holds with status 400 and the User table unchanged, also when the
\* other user took the email between the request's check and its write.
C22_EmailUniqueElse400 ==
  [][/\ NoSharedEmail'
     /\ \A r \in Reqs :
          (/\ EndsEmailRequest(r)
           /\ req[r].op = "updateUser" => req[r].id \in DOMAIN users
           /\ HeldByOther(users, req[r].body.email,
                          IF req[r].op = "updateUser" THEN req[r].id ELSE NoId) # {}) =>
            /\ res'[r][1].status = 400
            /\ users' = users]_vars

====
